---------------------------- MODULE Spec2Model ----------------------------
(***************************************************************************)
(* Model of the GL-ChemDraw conversion-and-delivery pipeline:              *)
(*   native-host/glchemdraw_clipboard.py  (native messaging host, main)    *)
(*   api/cdxml-to-cdx.py                  (HTTP handler, do_POST)          *)
(*                                                                         *)
(* Bytes and text are sequences of integers (byte values / code points).   *)
(* A Python optional (None or a value) is a sequence of length 0 or 1.     *)
(* A JSON value is a record [t |-> type tag, v |-> payload].               *)
(***************************************************************************)
EXTENDS Integers, Sequences, FiniteSets, TLC

None == <<>>
Some(x) == <<x>>
IsNone(o) == Len(o) = 0
Val(o) == o[1]

(***************************************************************************)
(* Python str.strip(): drop leading and trailing whitespace code points.   *)
(***************************************************************************)
IsSpace(c) ==
    c \in ((9..13) \cup (28..32) \cup {133, 160, 5760, 8232, 8233, 8239, 8287, 12288}
           \cup (8192..8202))

RECURSIVE LStrip(_)
LStrip(s) ==
    IF s = <<>> THEN <<>>
    ELSE IF IsSpace(Head(s)) THEN LStrip(Tail(s)) ELSE s

RECURSIVE RStrip(_)
RStrip(s) ==
    IF s = <<>> THEN <<>>
    ELSE IF IsSpace(s[Len(s)]) THEN RStrip(SubSeq(s, 1, Len(s) - 1)) ELSE s

Strip(s) == RStrip(LStrip(s))

(***************************************************************************)
(* base64.b64decode(s) with validate=False, as binascii.a2b_base64 does    *)
(* it: characters outside the alphabet are discarded, '=' ends the input   *)
(* once a quad is padded out, and a dangling quad is an error.             *)
(***************************************************************************)
B64Value(c) ==
    IF c \in 65..90 THEN c - 65
    ELSE IF c \in 97..122 THEN c - 71
    ELSE IF c \in 48..57 THEN c + 4
    ELSE IF c = 43 THEN 62
    ELSE IF c = 47 THEN 63
    ELSE 64

RECURSIVE A2B(_, _, _, _, _, _)
A2B(s, i, quad_pos, leftchar, pads, acc) ==
    IF i > Len(s)
    THEN IF quad_pos = 0
         THEN [ok |-> TRUE, bytes |-> acc, err |-> ""]
         ELSE IF quad_pos = 1
              THEN [ok |-> FALSE, bytes |-> <<>>, err |-> "Invalid base64-encoded string"]
              ELSE [ok |-> FALSE, bytes |-> <<>>, err |-> "Incorrect padding"]
    ELSE IF s[i] = 61
         THEN IF quad_pos >= 2 /\ quad_pos + pads + 1 >= 4
              THEN [ok |-> TRUE, bytes |-> acc, err |-> ""]
              ELSE A2B(s, i + 1, quad_pos, leftchar,
                       IF quad_pos >= 2 THEN pads + 1 ELSE pads, acc)
         ELSE LET v == B64Value(s[i]) IN
              IF v >= 64 THEN A2B(s, i + 1, quad_pos, leftchar, pads, acc)
              ELSE IF quad_pos = 0 THEN A2B(s, i + 1, 1, v, 0, acc)
              ELSE IF quad_pos = 1
                   THEN A2B(s, i + 1, 2, v % 16, 0,
                            Append(acc, (leftchar * 4 + (v \div 16)) % 256))
              ELSE IF quad_pos = 2
                   THEN A2B(s, i + 1, 3, v % 4, 0,
                            Append(acc, (leftchar * 16 + (v \div 4)) % 256))
              ELSE A2B(s, i + 1, 0, 0, 0,
                       Append(acc, (leftchar * 64 + v) % 256))

\* b64decode of a str: a non-ASCII str is a ValueError before any decoding
B64DecodeStr(s) ==
    IF \E i \in 1..Len(s) : s[i] > 127
    THEN [ok |-> FALSE, bytes |-> <<>>, err |-> "string argument should contain only ASCII characters"]
    ELSE A2B(s, 1, 0, 0, 0, <<>>)


(***************************************************************************)
(* bytes.decode('utf-8').  The streams of this model carry ASCII bytes and *)
(* the byte 255, which no UTF-8 sequence contains; a byte above 127 is     *)
(* therefore a UnicodeDecodeError here.                                    *)
(***************************************************************************)
RECURSIVE Utf8Chars(_, _, _)
Utf8Chars(bs, i, acc) ==
    IF i > Len(bs) THEN [ok |-> TRUE, text |-> acc]
    ELSE IF bs[i] < 128 THEN Utf8Chars(bs, i + 1, Append(acc, bs[i]))
    ELSE IF bs[i] \in 194..223 /\ i + 1 <= Len(bs) /\ bs[i + 1] \in 128..191
         THEN Utf8Chars(bs, i + 2, Append(acc, (bs[i] - 192) * 64 + (bs[i + 1] - 128)))
    ELSE [ok |-> FALSE, text |-> <<>>]

\* bytes.decode('utf-8'); ASCII bytes decode to themselves
Utf8Decode(bs) ==
    IF \A i \in 1..Len(bs) : bs[i] < 128 THEN [ok |-> TRUE, text |-> bs] ELSE Utf8Chars(bs, 1, <<>>)

\* str.encode('utf-8') for code points below 0x800
RECURSIVE Utf8Bytes(_)
Utf8Bytes(text) ==
    IF text = <<>> THEN <<>>
    ELSE LET c == Head(text) IN
         (IF c < 128 THEN <<c>> ELSE <<192 + (c \div 64), 128 + (c % 64)>>) \o Utf8Bytes(Tail(text))

Utf8Encode(text) ==
    IF \A i \in 1..Len(text) : text[i] < 128 THEN text ELSE Utf8Bytes(text)

\* struct.unpack('=I', raw_len)[0] on the target platform (little-endian)
UnpackI(b) == b[1] + 256 * b[2] + 65536 * b[3] + 16777216 * b[4]

\* struct.pack('=I', n) on the target platform (little-endian)
PackI(n) == << n % 256, (n \div 256) % 256, (n \div 65536) % 256, (n \div 16777216) % 256 >>

(***************************************************************************)
(* json.loads on the JSON subset the modelled requests use: objects,       *)
(* arrays, strings (BMP escapes included), integers, true/false/null, with *)
(* whitespace between tokens.  A result is [ok, val, next].                *)
(***************************************************************************)
JNull == [t |-> "null", v |-> 0]
JStr(s) == [t |-> "str", v |-> s]
JFail(i) == [ok |-> FALSE, val |-> JNull, next |-> i]
JDone(val, i) == [ok |-> TRUE, val |-> val, next |-> i]

RECURSIVE SkipWs(_, _)
SkipWs(t, i) ==
    IF i <= Len(t) /\ t[i] \in {32, 9, 10, 13} THEN SkipWs(t, i + 1) ELSE i

HasPrefix(t, i, w) ==
    /\ i + Len(w) - 1 <= Len(t)
    /\ SubSeq(t, i, i + Len(w) - 1) = w

\* the value of a hexadecimal digit, -1 for any other character
HexValue(c) ==
    IF c \in 48..57 THEN c - 48
    ELSE IF c \in 97..102 THEN c - 87
    ELSE IF c \in 65..70 THEN c - 55
    ELSE 0 - 1

\* the character a backslash followed by c stands for, -1 if there is none
Unescape(c) ==
    IF c \in {34, 92, 47} THEN c
    ELSE IF c = 98 THEN 8
    ELSE IF c = 102 THEN 12
    ELSE IF c = 110 THEN 10
    ELSE IF c = 114 THEN 13
    ELSE IF c = 116 THEN 9
    ELSE 0 - 1

\* the characters of a string from index i up to its closing quote; control
\* characters are rejected (strict mode), escapes are decoded
RECURSIVE ReadString(_, _, _)
ReadString(t, i, acc) ==
    IF i > Len(t) THEN JFail(i)
    ELSE IF t[i] = 34 THEN JDone(JStr(acc), i + 1)
    ELSE IF t[i] < 32 THEN JFail(i)
    ELSE IF t[i] # 92 THEN ReadString(t, i + 1, Append(acc, t[i]))
    ELSE IF i + 1 > Len(t) THEN JFail(i)
    ELSE IF t[i + 1] = 117
         THEN IF i + 5 <= Len(t) /\ \A k \in 2..5 : HexValue(t[i + k]) >= 0
              THEN ReadString(t, i + 6,
                              Append(acc, 4096 * HexValue(t[i + 2]) + 256 * HexValue(t[i + 3])
                                          + 16 * HexValue(t[i + 4]) + HexValue(t[i + 5])))
              ELSE JFail(i)
    ELSE IF Unescape(t[i + 1]) >= 0 THEN ReadString(t, i + 2, Append(acc, Unescape(t[i + 1])))
    ELSE JFail(i)

ParseString(t, i) ==
    IF i <= Len(t) /\ t[i] = 34 THEN ReadString(t, i + 1, <<>>) ELSE JFail(i)

RECURSIVE ScanDigits(_, _)
ScanDigits(t, i) ==
    IF i <= Len(t) /\ t[i] \in 48..57 THEN ScanDigits(t, i + 1) ELSE i

RECURSIVE DigitsValue(_)
DigitsValue(d) ==
    IF d = <<>> THEN 0 ELSE 10 * DigitsValue(SubSeq(d, 1, Len(d) - 1)) + (d[Len(d)] - 48)

ParseNumber(t, i) ==
    LET neg == i <= Len(t) /\ t[i] = 45
        s == IF neg THEN i + 1 ELSE i
        \* a leading 0 is a number on its own
        e == IF s <= Len(t) /\ t[s] = 48 THEN s + 1 ELSE ScanDigits(t, s)
        n == DigitsValue(SubSeq(t, s, e - 1))
    IN IF e = s THEN JFail(i)
       ELSE JDone([t |-> "num", v |-> IF neg THEN 0 - n ELSE n], e)

RECURSIVE ParseValue(_, _), ParseElems(_, _, _), ParseMembers(_, _, _)
ParseValue(t, i) ==
    IF i > Len(t) THEN JFail(i)
    ELSE IF t[i] = 34 THEN ParseString(t, i)
    ELSE IF t[i] = 123
         THEN LET j == SkipWs(t, i + 1) IN
              IF j <= Len(t) /\ t[j] = 125
              THEN JDone([t |-> "obj", v |-> <<>>], j + 1)
              ELSE ParseMembers(t, j, <<>>)
    ELSE IF t[i] = 91
         THEN LET j == SkipWs(t, i + 1) IN
              IF j <= Len(t) /\ t[j] = 93
              THEN JDone([t |-> "arr", v |-> <<>>], j + 1)
              ELSE ParseElems(t, j, <<>>)
    ELSE IF HasPrefix(t, i, <<110, 117, 108, 108>>) THEN JDone(JNull, i + 4)
    ELSE IF HasPrefix(t, i, <<116, 114, 117, 101>>)
         THEN JDone([t |-> "bool", v |-> TRUE], i + 4)
    ELSE IF HasPrefix(t, i, <<102, 97, 108, 115, 101>>)
         THEN JDone([t |-> "bool", v |-> FALSE], i + 5)
    ELSE ParseNumber(t, i)

\* the elements of an array, from the first character of an element
ParseElems(t, i, acc) ==
    LET r == ParseValue(t, i) IN
    IF ~r.ok THEN JFail(i)
    ELSE LET j == SkipWs(t, r.next)
             acc2 == Append(acc, r.val)
         IN IF j > Len(t) THEN JFail(j)
            ELSE IF t[j] = 93 THEN JDone([t |-> "arr", v |-> acc2], j + 1)
            ELSE IF t[j] = 44 THEN ParseElems(t, SkipWs(t, j + 1), acc2)
            ELSE JFail(j)

\* the members of an object, from the opening quote of a key
ParseMembers(t, i, acc) ==
    LET k == ParseString(t, i) IN
    IF ~k.ok THEN JFail(i)
    ELSE LET c == SkipWs(t, k.next) IN
         IF c > Len(t) \/ t[c] # 58 THEN JFail(c)
         ELSE LET r == ParseValue(t, SkipWs(t, c + 1)) IN
              IF ~r.ok THEN JFail(c)
              ELSE LET j == SkipWs(t, r.next)
                       acc2 == Append(acc, <<k.val.v, r.val>>)
                   IN IF j > Len(t) THEN JFail(j)
                      ELSE IF t[j] = 125 THEN JDone([t |-> "obj", v |-> acc2], j + 1)
                      ELSE IF t[j] = 44 THEN ParseMembers(t, SkipWs(t, j + 1), acc2)
                      ELSE JFail(j)

\* json.loads(text): one value, surrounded by whitespace only
JsonLoads(text) ==
    LET r == ParseValue(text, SkipWs(text, 1)) IN
    IF r.ok /\ SkipWs(text, r.next) = Len(text) + 1 THEN [ok |-> TRUE, val |-> r.val]
    ELSE [ok |-> FALSE, val |-> JNull]

\* Python truth value of a parsed JSON value
Truthy(x) ==
    IF x.t = "null" THEN FALSE
    ELSE IF x.t = "bool" THEN x.v
    ELSE IF x.t = "num" THEN x.v # 0
    ELSE x.v # <<>>

\* dict.get(key): the value of the last member with that key, or None (JSON null)
DictGet(d, key) ==
    LET hits == {i \in 1..Len(d.v) : d.v[i][1] = key} IN
    IF hits = {} THEN JNull
    ELSE d.v[CHOOSE i \in hits : \A j \in hits : j <= i][2]

\* x or y
Or(x, y) == IF Truthy(x) THEN x ELSE y

(***************************************************************************)
(* json.dumps with its defaults: ensure_ascii, separators ', ' and ': '.   *)
(***************************************************************************)
HexDigit(d) == IF d < 10 THEN 48 + d ELSE 87 + d

\* mutant of EscapeChar: the character is written as it is
EscapeCharRaw(c) == <<c>>

\* the encoder's replacement for one character of a string
EscapeChar(c) ==
    IF c = 34 THEN <<92, 34>>
    ELSE IF c = 92 THEN <<92, 92>>
    ELSE IF c = 10 THEN <<92, 110>>
    ELSE IF c = 13 THEN <<92, 114>>
    ELSE IF c = 9 THEN <<92, 116>>
    ELSE IF c = 8 THEN <<92, 98>>
    ELSE IF c = 12 THEN <<92, 102>>
    ELSE IF c \in 32..126 THEN <<c>>
    ELSE <<92, 117, HexDigit((c \div 4096) % 16), HexDigit((c \div 256) % 16),
           HexDigit((c \div 16) % 16), HexDigit(c % 16)>>

RECURSIVE EscapeText(_)
EscapeText(s) == IF s = <<>> THEN <<>> ELSE EscapeChar(Head(s)) \o EscapeText(Tail(s))

RECURSIVE DumpDigits(_)
DumpDigits(k) == IF k < 10 THEN <<48 + k>> ELSE DumpDigits(k \div 10) \o <<48 + (k % 10)>>

DumpNumber(n) == IF n < 0 THEN <<45>> \o DumpDigits(0 - n) ELSE DumpDigits(n)

RECURSIVE JsonDumps(_), DumpElems(_), DumpMembers(_)
JsonDumps(x) ==
    IF x.t = "null" THEN <<110, 117, 108, 108>>
    ELSE IF x.t = "bool" THEN (IF x.v THEN <<116, 114, 117, 101>> ELSE <<102, 97, 108, 115, 101>>)
    ELSE IF x.t = "num" THEN DumpNumber(x.v)
    ELSE IF x.t = "str" THEN <<34>> \o EscapeText(x.v) \o <<34>>
    ELSE IF x.t = "arr" THEN <<91>> \o DumpElems(x.v) \o <<93>>
    ELSE <<123>> \o DumpMembers(x.v) \o <<125>>

DumpElems(xs) ==
    IF xs = <<>> THEN <<>>
    ELSE JsonDumps(Head(xs)) \o (IF Len(xs) = 1 THEN <<>> ELSE <<44, 32>> \o DumpElems(Tail(xs)))

DumpMembers(ms) ==
    IF ms = <<>> THEN <<>>
    ELSE <<34>> \o EscapeText(Head(ms)[1]) \o <<34, 58, 32>> \o JsonDumps(Head(ms)[2])
         \o (IF Len(ms) = 1 THEN <<>> ELSE <<44, 32>> \o DumpMembers(Tail(ms)))


(***************************************************************************)
(* Requests.  A request text is built the way the calling extension builds *)
(* it: a JSON object with any of the members cdxml, cdx, cdxBase64.        *)
(***************************************************************************)
K_cdxml == <<99, 100, 120, 109, 108>>
K_cdx == <<99, 100, 120>>
K_cdxBase64 == <<99, 100, 120, 66, 97, 115, 101, 54, 52>>

Quoted(s) == <<34>> \o s \o <<34>>
Member(key, valueText) == Quoted(key) \o <<58>> \o valueText

RECURSIVE JoinMembers(_)
JoinMembers(ms) ==
    IF ms = <<>> THEN <<>>
    ELSE IF Len(ms) = 1 THEN ms[1]
    ELSE ms[1] \o <<44>> \o JoinMembers(Tail(ms))

ObjectText(ms) == <<123>> \o JoinMembers(ms) \o <<125>>

\* the member for a key: no member at all when the option is None
OptMember(key, opt) == IF IsNone(opt) THEN <<>> ELSE << Member(key, Val(opt)) >>

\* markup texts: "", "  ", " m ", "n"
MarkupTexts == { <<>>, <<32, 32>>, <<32, 109, 32>>, <<110>> }
\* blobs: "", "QQ==" (one byte), "!!" (decodes to no bytes), "Q" (undecodable)
BlobTexts == { <<>>, <<81, 81, 61, 61>>, <<33, 33>>, <<81>> }

\* JSON texts of the cdxml member: absent, a string, 5, null, ["n"]
CdxmlOptions ==
    {None} \cup {Some(Quoted(m)) : m \in MarkupTexts}
           \cup {Some(<<53>>), Some(<<110, 117, 108, 108>>), Some(<<91>> \o Quoted(<<110>>) \o <<93>>)}
\* JSON texts of the cdx member: absent, a string, 5
CdxOptions == {None} \cup {Some(Quoted(b)) : b \in BlobTexts} \cup {Some(<<53>>)}
\* JSON texts of the cdxBase64 member: absent, "QUI=" (two bytes)
CdxBase64Options == {None, Some(Quoted(<<81, 85, 73, 61>>))}

ObjectTexts ==
    { ObjectText(OptMember(K_cdxml, a) \o OptMember(K_cdx, b) \o OptMember(K_cdxBase64, c)) :
        a \in CdxmlOptions, b \in CdxOptions, c \in CdxBase64Options }

\* texts that are not a JSON object: [], 5, an unterminated object, bytes that are not UTF-8
OtherTexts == { <<91, 93>>, <<53>>, <<123>> \o Quoted(K_cdxml), <<123, 255, 125>> }

RequestTexts == ObjectTexts \cup OtherTexts

\* how many bytes more than were sent a length prefix may declare
MaxShort == 1

\* a framed message: the 4-byte length prefix, then the payload
Frame(payload) == PackI(Len(payload)) \o payload

\* what the host may find on stdin: nothing, a cut prefix, a frame, a frame whose
\* prefix declares more than follows, a frame cut inside its payload, a zero-length frame
Stdins ==
    { <<>>, <<2, 0>>, Frame(<<>>) }
    \cup { Frame(t) : t \in RequestTexts }
    \cup { PackI(Len(t) + k) \o t : t \in RequestTexts, k \in 1..MaxShort }
    \cup { PackI(Len(t)) \o SubSeq(t, 1, Len(t) - 1) : t \in OtherTexts }

Platforms == {"win32", "linux"}

(***************************************************************************)
(* State.                                                                  *)
(***************************************************************************)
VARIABLES
    entry,       \* the entry point running: "main" (native host), "do_POST" (HTTP handler)
                 \* or "cli" (scripts/cdx_to_clipboard.py)
    argv,        \* cli: sys.argv[1:], a sequence of paths
    disk,        \* cli: the file at the path, None when there is none, else its bytes
    pc,          \* position in main() / do_POST(); "done" = returned, "raised" = left by an exception
    platform,    \* sys.platform
    stdin,       \* bytes not yet read from sys.stdin.buffer
    headers,     \* the request's Content-Length header: None or its text
    rfile,       \* the request body available on the connection
    raw,         \* main: raw (None or text)
    data,        \* the parsed JSON value
    cdxml,       \* the markup, a JSON value (in main always a stripped string)
    cdx_b64,     \* main: the supplied blob, a JSON value
    cdx_bytes,   \* None or the binary payload
    err,         \* main: the error returned by cdxml_to_cdx_bytes (None or text)
    converter,   \* which provider module cdxml_converter is bound to
    tmp_path,    \* None or the name of the staged file
    fs,          \* names of the staged files that exist
    ret,         \* the value cdxml_to_cdx_bytes / convert_cdxml_to_cdx is about to return
    exc,         \* the exception in flight (None or its text)
    clip_open,   \* this process holds the clipboard
    clipboard,   \* the clipboard's content: a set of [fmt, data]
    log,         \* every external call made, in order: [op, arg, ok]
    sent,        \* framing round trip: the object handed to write_message, a JSON value
    stdout       \* bytes written to sys.stdout.buffer by the framing round trip

vars == << entry, argv, disk, pc, platform, stdin, headers, rfile, raw, data, cdxml, cdx_b64, cdx_bytes, err,
           converter, tmp_path, fs, ret, exc, clip_open, clipboard, log, sent, stdout >>

io == << entry, argv, disk, platform, stdin, headers, rfile, sent, stdout >>
locals == << raw, data, cdxml, cdx_b64, cdx_bytes, err >>
conv == << converter, tmp_path, fs, ret >>
clip == << clip_open, clipboard >>

Call(op, arg, ok) == [op |-> op, arg |-> arg, ok |-> ok]

\* what the clipboard holds before the host runs
OldClipboard == { [fmt |-> "CF_UNICODETEXT", data |-> <<111, 108, 100>>] }

NoValue == JStr(<<>>)

\* str(n) for n >= 0
RECURSIVE IntText(_)
IntText(n) == IF n < 10 THEN <<48 + n>> ELSE IntText(n \div 10) \o <<48 + (n % 10)>>

\* int(text): optional surrounding whitespace, optional sign, decimal digits
ParseInt(text) ==
    LET t == Strip(text)
        signed == t # <<>> /\ t[1] \in {43, 45}
        d == IF signed THEN Tail(t) ELSE t
    IN IF d = <<>> \/ \E i \in 1..Len(d) : d[i] \notin 48..57
       THEN [ok |-> FALSE, n |-> 0]
       ELSE [ok |-> TRUE, n |-> IF signed /\ t[1] = 45 THEN 0 - DigitsValue(d) ELSE DigitsValue(d)]

\* Content-Length headers of a request with this body: absent, exact, not a number, one short
ContentLengths(body) ==
    { None, Some(IntText(Len(body))), Some(<<120>>) }
    \cup (IF Len(body) > 0 THEN {Some(IntText(Len(body) - 1))} ELSE {})

InitLocals ==
    /\ raw = None /\ data = JNull /\ cdxml = NoValue /\ cdx_b64 = NoValue
    /\ cdx_bytes = None /\ err = None
    /\ converter = "" /\ tmp_path = None /\ fs = {} /\ ret = None /\ exc = None
    /\ clip_open = FALSE /\ clipboard = OldClipboard
    /\ log = <<>>

\* the native host is launched with some stdin
InitHost ==
    /\ entry = "main"
    /\ argv = <<>> /\ disk = None
    /\ pc = "main"
    /\ platform \in Platforms
    /\ stdin \in Stdins
    /\ headers = None /\ rfile = <<>>

\* the HTTP handler is entered with some POST request
InitHttp ==
    /\ entry = "do_POST"
    /\ argv = <<>> /\ disk = None
    /\ pc = "do_POST"
    /\ platform = "linux"
    /\ stdin = <<>>
    /\ rfile \in RequestTexts
    /\ headers \in ContentLengths(rfile)

\* cdx_to_clipboard.py is run with or without a path, on a missing, empty or CDX file
InitCli ==
    /\ entry = "cli"
    /\ pc = "cli"
    /\ platform \in Platforms
    /\ argv \in { <<>>, << "structure.cdx" >> }
    /\ disk \in { None, Some(<<>>), Some(<<67, 68, 88>>) }
    /\ stdin = <<>> /\ headers = None /\ rfile = <<>>

Init == InitLocals /\ sent = JNull /\ stdout = <<>> /\ (InitHost \/ InitHttp \/ InitCli)


(***************************************************************************)
(* write_message(obj): one call, which either writes and flushes the       *)
(* frame or raises (stdout closed by the peer).                            *)
(***************************************************************************)
Failure(reason) == [success |-> FALSE, error |-> reason]
Success == [success |-> TRUE]

write_message(obj, ok) == log' = Append(log, Call("write_message", obj, ok))

(***************************************************************************)
(* read_message(): the bytes taken from stdin and the value returned.      *)
(***************************************************************************)
Take(bs, n) == SubSeq(bs, 1, IF n < Len(bs) THEN n ELSE Len(bs))
Drop(bs, n) == SubSeq(bs, (IF n < Len(bs) THEN n ELSE Len(bs)) + 1, Len(bs))

read_message(in) ==
    LET raw_len == Take(in, 4) IN
    IF Len(raw_len) < 4
    THEN [rest |-> Drop(in, 4), raised |-> FALSE, value |-> None, declared |-> 0, got |-> 0]
    ELSE LET msg_len == UnpackI(raw_len)
             body == Take(Drop(in, 4), msg_len)
             dec == Utf8Decode(body)
         IN [rest |-> Drop(Drop(in, 4), msg_len), raised |-> ~dec.ok, value |-> Some(dec.text),
             declared |-> msg_len, got |-> Len(body)]

(***************************************************************************)
(* main(), lines 62-79: platform check, read, parse, validation.           *)
(***************************************************************************)
\* mutant of MainPlatform: the message is read before the platform is checked
MainPlatformReadsFirst ==
    /\ pc = "main"
    /\ IF platform # "win32"
       THEN \E ok \in BOOLEAN :
              /\ stdin' = read_message(stdin).rest
              /\ log' = log \o << Call("read_message", <<>>, TRUE),
                                  Call("write_message", Failure("Windows only"), ok) >>
              /\ pc' = IF ok THEN "done" ELSE "raised"
       ELSE /\ pc' = "read"
            /\ UNCHANGED << stdin, log >>
    /\ UNCHANGED << entry, argv, disk, platform, headers, rfile, sent, stdout, locals, conv, exc, clip >>

MainPlatform ==
    /\ pc = "main"
    /\ IF platform # "win32"
       THEN \E ok \in BOOLEAN :
              /\ write_message(Failure("Windows only"), ok)
              /\ pc' = IF ok THEN "done" ELSE "raised"
       ELSE /\ pc' = "read"
            /\ UNCHANGED log
    /\ UNCHANGED << io, locals, conv, exc, clip >>

MainRead ==
    /\ pc = "read"
    /\ LET r == read_message(stdin) IN
         /\ stdin' = r.rest
         /\ log' = Append(log, Call("read_message", [declared |-> r.declared, got |-> r.got], ~r.raised))
         /\ IF r.raised
            THEN /\ exc' = Some("UnicodeDecodeError")
                 /\ pc' = "except_request"
                 /\ UNCHANGED raw
            ELSE /\ raw' = r.value
                 /\ pc' = "parse"
                 /\ UNCHANGED exc
    /\ UNCHANGED << entry, argv, disk, platform, headers, rfile, sent, stdout, data, cdxml, cdx_b64, cdx_bytes, err,
                    conv, clip >>

\* mutant of NothingToDeliver: the markup is tested without trimming
NothingToDeliverUntrimmed(markup, blob) == markup = <<>> /\ ~Truthy(blob)

\* lines 72-74: 'not cdxml and not cdx_b64' on the trimmed markup and the first truthy alias
NothingToDeliver(markup, blob) == Strip(markup) = <<>> /\ ~Truthy(blob)

\* lines 68-76; an exception raised there (also by write_message) goes to line 77
MainParse ==
    /\ pc = "parse"
    /\ IF IsNone(raw) \/ Val(raw) = <<>>
       THEN /\ \E ok \in BOOLEAN :
                 /\ write_message(Failure("No input"), ok)
                 /\ pc' = IF ok THEN "done" ELSE "except_request"
                 /\ exc' = IF ok THEN exc ELSE Some("write_message failed")
            /\ UNCHANGED << data, cdxml, cdx_b64 >>
       ELSE LET j == JsonLoads(Val(raw)) IN
            IF ~j.ok
            THEN /\ exc' = Some("JSONDecodeError")
                 /\ pc' = "except_request"
                 /\ UNCHANGED << data, cdxml, cdx_b64, log >>
            ELSE /\ data' = j.val
                 /\ IF j.val.t # "obj"
                    THEN /\ exc' = Some("AttributeError: no attribute get")
                         /\ pc' = "except_request"
                         /\ UNCHANGED << cdxml, cdx_b64, log >>
                    ELSE LET m == Or(DictGet(j.val, K_cdxml), NoValue)
                             b == Or(Or(DictGet(j.val, K_cdx), DictGet(j.val, K_cdxBase64)), NoValue)
                         IN IF m.t # "str"
                            THEN /\ exc' = Some("AttributeError: no attribute strip")
                                 /\ pc' = "except_request"
                                 /\ UNCHANGED << cdxml, cdx_b64, log >>
                            ELSE /\ cdxml' = JStr(Strip(m.v))
                                 /\ cdx_b64' = b
                                 /\ IF NothingToDeliver(m.v, b)
                                    THEN \E ok \in BOOLEAN :
                                           /\ write_message(Failure("Missing cdxml or cdx field"), ok)
                                           /\ pc' = IF ok THEN "done" ELSE "except_request"
                                           /\ exc' = IF ok THEN exc ELSE Some("write_message failed")
                                    ELSE /\ pc' = "import"
                                         /\ UNCHANGED << exc, log >>
    /\ UNCHANGED << io, raw, cdx_bytes, err, conv, clip >>

\* lines 77-79
MainExceptRequest ==
    /\ pc = "except_request"
    /\ \E ok \in BOOLEAN :
         /\ write_message(Failure(Val(exc)), ok)
         /\ pc' = IF ok THEN "done" ELSE "raised"
    /\ UNCHANGED << io, locals, conv, exc, clip >>

\* mutant of MainImport: a missing pywin32 does not stop the run before the conversion
MainImportUnchecked ==
    /\ pc = "import"
    /\ \E found \in BOOLEAN :
         /\ log' = Append(log, Call("import win32clipboard", <<>>, found))
         /\ pc' = "convert"
    /\ UNCHANGED << io, locals, conv, exc, clip >>

\* lines 81-85
MainImport ==
    /\ pc = "import"
    /\ \E found \in BOOLEAN :
         /\ IF found
            THEN /\ log' = Append(log, Call("import win32clipboard", <<>>, TRUE))
                 /\ pc' = "convert"
            ELSE \E ok \in BOOLEAN :
                   /\ log' = log \o << Call("import win32clipboard", <<>>, FALSE),
                                       Call("write_message",
                                            Failure("Install pywin32: pip install pywin32"), ok) >>
                   /\ pc' = IF ok THEN "done" ELSE "raised"
    /\ UNCHANGED << io, locals, conv, exc, clip >>


(***************************************************************************)
(* The converter providers.  Importing one succeeds, raises ImportError or *)
(* raises something else; a loaded provider parses the staged file or      *)
(* raises, and serializes to base64 text or raises.                        *)
(***************************************************************************)
ImportOutcomes == {"ok", "ImportError", "Exception"}

\* base64 texts to_b64_cdx may return: "Q0RY" (the bytes CDX), "" and "Q" (undecodable)
B64Outputs == { <<81, 48, 82, 89>>, <<>>, <<81>> }

TmpName == "tmp.cdxml"

\* mutant of TriesNextProvider: any failure of the first import leads to the second
TriesNextProviderOnAnyError(outcome) == outcome # "ok"

\* the except clause of the first import that leads to the second import (line 37 / 16)
TriesNextProvider(outcome) == outcome = "ImportError"

\* doc = read_cdxml(tmp_path); b64 = to_b64_cdx(doc); base64.b64decode(b64)
\* parsed: read_cdxml returned; out: None when to_b64_cdx raised, else its text
RunProvider(parsed, out) ==
    IF ~parsed
    THEN [calls |-> << Call("read_cdxml", <<>>, FALSE) >>,
          raised |-> TRUE, bytes |-> <<>>, error |-> "read_cdxml failed"]
    ELSE IF IsNone(out)
    THEN [calls |-> << Call("read_cdxml", <<>>, TRUE), Call("to_b64_cdx", <<>>, FALSE) >>,
          raised |-> TRUE, bytes |-> <<>>, error |-> "to_b64_cdx failed"]
    ELSE LET d == B64DecodeStr(Val(out)) IN
         [calls |-> << Call("read_cdxml", <<>>, TRUE), Call("to_b64_cdx", Val(out), TRUE),
                       Call("b64decode provider output", Val(out), d.ok) >>,
          raised |-> ~d.ok, bytes |-> d.bytes, error |-> d.err]

(***************************************************************************)
(* cdxml_to_cdx_bytes(cdxml) of the native host, lines 32-59.              *)
(***************************************************************************)
\* return from cdxml_to_cdx_bytes to line 90: cdx_bytes, err = ...
ReturnToMain(bytes, error) ==
    /\ cdx_bytes' = bytes
    /\ err' = error
    /\ pc' = "fallback"

\* lines 87-90
MainConvert ==
    /\ pc = "convert"
    /\ pc' = IF cdxml.v # <<>> THEN "c_import" ELSE "fallback"
    /\ UNCHANGED << io, locals, conv, exc, clip, log >>

\* lines 34-43
CImport ==
    /\ pc = "c_import"
    /\ \E o1 \in ImportOutcomes :
         IF o1 = "ok"
         THEN /\ log' = Append(log, Call("import", <<"pycdxml", o1>>, TRUE))
              /\ converter' = "pycdxml"
              /\ pc' = "c_stage"
              /\ UNCHANGED << cdx_bytes, err >>
         ELSE IF ~TriesNextProvider(o1)
         THEN /\ log' = Append(log, Call("import", <<"pycdxml", o1>>, FALSE))
              /\ ReturnToMain(None, Some("pycdxml import raised"))
              /\ UNCHANGED converter
         ELSE \E o2 \in ImportOutcomes :
                /\ log' = log \o << Call("import", <<"pycdxml", o1>>, FALSE),
                                    Call("import", <<"cdx_mol", o2>>, o2 = "ok") >>
                /\ IF o2 = "ok"
                   THEN /\ converter' = "cdx_mol"
                        /\ pc' = "c_stage"
                        /\ UNCHANGED << cdx_bytes, err >>
                   ELSE /\ ReturnToMain(None,
                                        IF o2 = "ImportError"
                                        THEN Some("Install cdx-mol: pip install cdx-mol")
                                        ELSE Some("cdx_mol import raised"))
                        /\ UNCHANGED converter
    /\ UNCHANGED << io, raw, data, cdxml, cdx_b64, tmp_path, fs, ret, exc, clip >>

\* lines 44-48: tmp_path is assigned only after f.write returned
CStage ==
    /\ pc = "c_stage"
    /\ \E created \in BOOLEAN, written \in BOOLEAN :
         IF ~created
         THEN /\ ~written
              /\ log' = Append(log, Call("NamedTemporaryFile", TmpName, FALSE))
              /\ ret' = << None, Some("NamedTemporaryFile failed") >>
              /\ pc' = "c_finally"
              /\ UNCHANGED << tmp_path, fs >>
         ELSE /\ log' = log \o << Call("NamedTemporaryFile", TmpName, TRUE),
                                  Call("f.write", cdxml.v, written) >>
              /\ fs' = fs \cup {TmpName}
              /\ IF written
                 THEN /\ tmp_path' = Some(TmpName)
                      /\ pc' = "c_run"
                      /\ UNCHANGED ret
                 ELSE /\ ret' = << None, Some("f.write failed") >>
                      /\ pc' = "c_finally"
                      /\ UNCHANGED tmp_path
    /\ UNCHANGED << io, locals, converter, exc, clip >>

\* lines 49-53
CRun ==
    /\ pc = "c_run"
    /\ \E parsed \in BOOLEAN, out \in {None} \cup {Some(b) : b \in B64Outputs} :
         /\ parsed \/ IsNone(out)
         /\ LET r == RunProvider(parsed, out) IN
              /\ log' = log \o r.calls
              /\ ret' = IF r.raised THEN << None, Some(r.error) >> ELSE << Some(r.bytes), None >>
    /\ pc' = "c_finally"
    /\ UNCHANGED << io, locals, converter, tmp_path, fs, exc, clip >>

\* lines 54-59, then the return
CFinally ==
    /\ pc = "c_finally"
    /\ IF IsNone(tmp_path)
       THEN UNCHANGED << fs, log >>
       ELSE \E removed \in BOOLEAN :
              /\ log' = Append(log, Call("os.unlink", Val(tmp_path), removed))
              /\ fs' = IF removed THEN fs \ {Val(tmp_path)} ELSE fs
    /\ ReturnToMain(ret[1], ret[2])
    /\ UNCHANGED << io, raw, data, cdxml, cdx_b64, converter, tmp_path, ret, exc, clip >>

(***************************************************************************)
(* main(), lines 93-104: the blob fallback and the outright failure.       *)
(***************************************************************************)
\* mutant of UsesBlob: the blob is decoded even when the conversion produced bytes
UsesBlobAlways(bytes, blob) == Truthy(blob)

\* line 94
UsesBlob(bytes, blob) == IsNone(bytes) /\ Truthy(blob)

\* mutant of DecodeBlob: the base64 text itself is used as the payload
DecodeBlobUndecoded(blob) ==
    IF blob.t # "str" THEN [ok |-> FALSE, bytes |-> <<>>, err |-> "TypeError"]
    ELSE [ok |-> TRUE, bytes |-> blob.v, err |-> ""]

\* base64.b64decode(cdx_b64): a value that is not a str is a TypeError
DecodeBlob(blob) ==
    IF blob.t # "str" THEN [ok |-> FALSE, bytes |-> <<>>, err |-> "TypeError"]
    ELSE B64DecodeStr(blob.v)

MainFallback ==
    /\ pc = "fallback"
    /\ IF UsesBlob(cdx_bytes, cdx_b64)
       THEN LET d == DecodeBlob(cdx_b64) IN
              /\ log' = Append(log, Call("b64decode blob", cdx_b64.v, d.ok))
              /\ cdx_bytes' = IF d.ok THEN Some(d.bytes) ELSE cdx_bytes
       ELSE UNCHANGED << cdx_bytes, log >>
    /\ pc' = "check"
    /\ UNCHANGED << io, raw, data, cdxml, cdx_b64, err, conv, exc, clip >>

\* lines 99-104
MainCheck ==
    /\ pc = "check"
    /\ IF IsNone(cdx_bytes)
       THEN \E ok \in BOOLEAN :
              /\ write_message(Failure("Could not get CDX. Install cdx-mol: pip install cdx-mol"), ok)
              /\ pc' = IF ok THEN "done" ELSE "raised"
       ELSE /\ pc' = "register"
            /\ UNCHANGED log
    /\ UNCHANGED << io, locals, conv, exc, clip >>


(***************************************************************************)
(* main(), lines 106-118: the clipboard transaction.                       *)
(***************************************************************************)
CDX_FORMAT == "ChemDraw Interchange Format"

\* a pywin32 call that raised: the exception leaves the try block it is in
ClipRaise(name, handler) ==
    /\ exc' = Some(name)
    /\ pc' = handler

\* line 107
ClipRegister ==
    /\ pc = "register"
    /\ \E ok \in BOOLEAN :
         /\ log' = Append(log, Call("RegisterClipboardFormat", CDX_FORMAT, ok))
         /\ IF ok THEN pc' = "open" /\ UNCHANGED exc
                  ELSE ClipRaise("RegisterClipboardFormat failed", "except_clip")
    /\ UNCHANGED << io, locals, conv, clip >>

\* line 108, outside the try/finally
ClipOpen ==
    /\ pc = "open"
    /\ \E ok \in BOOLEAN :
         /\ log' = Append(log, Call("OpenClipboard", <<>>, ok))
         /\ clip_open' = ok
         /\ IF ok THEN pc' = "empty" /\ UNCHANGED exc
                  ELSE ClipRaise("OpenClipboard failed", "except_clip")
    /\ UNCHANGED << io, locals, conv, clipboard >>

\* mutant of ClipEmpty: a failed clear leaves without the finally clause
ClipEmptyNoRelease ==
    /\ pc = "empty"
    /\ \E ok \in BOOLEAN :
         /\ log' = Append(log, Call("EmptyClipboard", <<>>, ok))
         /\ clipboard' = IF ok THEN {} ELSE clipboard
         /\ IF ok THEN pc' = "set_cdx" /\ UNCHANGED exc
                  ELSE ClipRaise("EmptyClipboard failed", "except_clip")
    /\ UNCHANGED << io, locals, conv, clip_open >>

\* line 110
ClipEmpty ==
    /\ pc = "empty"
    /\ \E ok \in BOOLEAN :
         /\ log' = Append(log, Call("EmptyClipboard", <<>>, ok))
         /\ clipboard' = IF ok THEN {} ELSE clipboard
         /\ IF ok THEN pc' = "set_cdx" /\ UNCHANGED exc
                  ELSE ClipRaise("EmptyClipboard failed", "close")
    /\ UNCHANGED << io, locals, conv, clip_open >>

SetClipboardData(fmt, bytes, ok) ==
    /\ log' = Append(log, Call("SetClipboardData", [fmt |-> fmt, data |-> bytes], ok))
    /\ clipboard' = IF ok THEN {c \in clipboard : c.fmt # fmt} \cup {[fmt |-> fmt, data |-> bytes]}
                          ELSE clipboard

\* mutant of ClipSetCdx: a failed custom-format write is ignored
ClipSetCdxIgnoringFailure ==
    /\ pc = "set_cdx"
    /\ \E ok \in BOOLEAN : SetClipboardData(CDX_FORMAT, Val(cdx_bytes), ok)
    /\ pc' = "set_text"
    /\ UNCHANGED << io, locals, conv, exc, clip_open >>

\* line 111
ClipSetCdx ==
    /\ pc = "set_cdx"
    /\ \E ok \in BOOLEAN :
         /\ SetClipboardData(CDX_FORMAT, Val(cdx_bytes), ok)
         /\ IF ok THEN pc' = "set_text" /\ UNCHANGED exc
                  ELSE ClipRaise("SetClipboardData failed", "close")
    /\ UNCHANGED << io, locals, conv, clip_open >>

\* mutant of WritesText: the text format is written whatever the markup
WritesTextAlways(markup) == TRUE

\* line 112
WritesText(markup) == markup.v # <<>>

\* lines 112-113
ClipSetText ==
    /\ pc = "set_text"
    /\ IF WritesText(cdxml)
       THEN \E ok \in BOOLEAN :
              /\ SetClipboardData("CF_UNICODETEXT", cdxml.v, ok)
              /\ IF ok THEN pc' = "respond" /\ UNCHANGED exc
                       ELSE ClipRaise("SetClipboardData failed", "close")
       ELSE /\ pc' = "respond"
            /\ UNCHANGED << exc, clipboard, log >>
    /\ UNCHANGED << io, locals, conv, clip_open >>

\* line 114, inside the try/finally
ClipRespond ==
    /\ pc = "respond"
    /\ \E ok \in BOOLEAN :
         /\ write_message(Success, ok)
         /\ exc' = IF ok THEN exc ELSE Some("write_message failed")
    /\ pc' = "close"
    /\ UNCHANGED << io, locals, conv, clip >>

\* lines 115-116: the finally clause, entered on return and on exception alike;
\* an exception raised by CloseClipboard itself replaces the one in flight
ClipClose ==
    /\ pc = "close"
    /\ \E ok \in BOOLEAN :
         /\ log' = Append(log, Call("CloseClipboard", <<>>, ok))
         /\ clip_open' = IF ok THEN FALSE ELSE clip_open
         /\ IF ok
            THEN /\ pc' = IF IsNone(exc) THEN "done" ELSE "except_clip"
                 /\ UNCHANGED exc
            ELSE ClipRaise("CloseClipboard failed", "except_clip")
    /\ UNCHANGED << io, locals, conv, clipboard >>

\* lines 117-118
MainExceptClip ==
    /\ pc = "except_clip"
    /\ \E ok \in BOOLEAN :
         /\ write_message(Failure(Val(exc)), ok)
         /\ pc' = IF ok THEN "done" ELSE "raised"
    /\ UNCHANGED << io, locals, conv, exc, clip >>

(***************************************************************************)
(* api/cdxml-to-cdx.py: convert_cdxml_to_cdx, lines 13-34.  An exception   *)
(* leaves the function and reaches the except clause of do_POST, line 69.  *)
(***************************************************************************)
\* lines 14-20
HImport ==
    /\ pc = "h_import"
    /\ \E o1 \in ImportOutcomes :
         IF o1 = "ok"
         THEN /\ log' = Append(log, Call("import", <<"pycdxml", o1>>, TRUE))
              /\ converter' = "pycdxml"
              /\ pc' = "h_stage"
              /\ UNCHANGED exc
         ELSE IF ~TriesNextProvider(o1)
         THEN /\ log' = Append(log, Call("import", <<"pycdxml", o1>>, FALSE))
              /\ exc' = Some("pycdxml import raised")
              /\ pc' = "post_500"
              /\ UNCHANGED converter
         ELSE \E o2 \in ImportOutcomes :
                /\ log' = log \o << Call("import", <<"pycdxml", o1>>, FALSE),
                                    Call("import", <<"cdx_mol", o2>>, o2 = "ok") >>
                /\ IF o2 = "ok"
                   THEN /\ converter' = "cdx_mol"
                        /\ pc' = "h_stage"
                        /\ UNCHANGED exc
                   ELSE /\ exc' = IF o2 = "ImportError" THEN Some("cdx-mol not installed")
                                                        ELSE Some("cdx_mol import raised")
                        /\ pc' = "post_500"
                        /\ UNCHANGED converter
    /\ UNCHANGED << io, locals, tmp_path, fs, ret, clip >>

\* lines 22-24, before the try/finally
HStage ==
    /\ pc = "h_stage"
    /\ \E created \in BOOLEAN, written \in BOOLEAN :
         IF ~created
         THEN /\ ~written
              /\ log' = Append(log, Call("NamedTemporaryFile", TmpName, FALSE))
              /\ exc' = Some("NamedTemporaryFile failed")
              /\ pc' = "post_500"
              /\ UNCHANGED << tmp_path, fs >>
         ELSE /\ log' = log \o << Call("NamedTemporaryFile", TmpName, TRUE),
                                  Call("f.write", Strip(cdxml.v), written) >>
              /\ fs' = fs \cup {TmpName}
              /\ IF written
                 THEN /\ tmp_path' = Some(TmpName)
                      /\ pc' = "h_run"
                      /\ UNCHANGED exc
                 ELSE /\ exc' = Some("f.write failed")
                      /\ pc' = "post_500"
                      /\ UNCHANGED tmp_path
    /\ UNCHANGED << io, locals, converter, ret, clip >>

\* lines 26-29
HRun ==
    /\ pc = "h_run"
    /\ \E parsed \in BOOLEAN, out \in {None} \cup {Some(b) : b \in B64Outputs} :
         /\ parsed \/ IsNone(out)
         /\ LET r == RunProvider(parsed, out) IN
              /\ log' = log \o r.calls
              /\ ret' = IF r.raised THEN None ELSE Some(r.bytes)
              /\ exc' = IF r.raised THEN Some(r.error) ELSE exc
    /\ pc' = "h_finally"
    /\ UNCHANGED << io, locals, converter, tmp_path, fs, clip >>

\* lines 30-34, then the return to line 68 or the exception to line 69
HFinally ==
    /\ pc = "h_finally"
    /\ \E removed \in BOOLEAN :
         /\ log' = Append(log, Call("os.unlink", Val(tmp_path), removed))
         /\ fs' = IF removed THEN fs \ {Val(tmp_path)} ELSE fs
    /\ IF IsNone(exc)
       THEN /\ cdx_bytes' = ret
            /\ pc' = "post_200"
       ELSE /\ pc' = "post_500"
            /\ UNCHANGED cdx_bytes
    /\ UNCHANGED << io, raw, data, cdxml, cdx_b64, err, converter, tmp_path, ret, exc, clip >>

(***************************************************************************)
(* api/cdxml-to-cdx.py: handler.do_POST, lines 45-83.                      *)
(***************************************************************************)
\* send_response, the headers, end_headers and the body of a JSON error response
ErrorResponse(status, reason) ==
    << Call("send_response", status, TRUE),
       Call("send_header", <<"Access-Control-Allow-Origin", "*">>, TRUE),
       Call("send_header", <<"Content-Type", "application/json">>, TRUE),
       Call("end_headers", <<>>, TRUE),
       Call("wfile.write", [error |-> reason], TRUE) >>

\* rfile.read(n): the first n bytes, everything when n < 0
RfileRead(body, n) == IF n < 0 THEN body ELSE Take(body, n)

\* lines 46-57
PostParse ==
    /\ pc = "do_POST"
    /\ LET cl == IF IsNone(headers) THEN [ok |-> TRUE, n |-> 0] ELSE ParseInt(Val(headers))
           body == RfileRead(rfile, cl.n)
           dec == Utf8Decode(body)
           j == JsonLoads(dec.text)
       IN IF ~cl.ok \/ ~dec.ok \/ ~j.ok \/ j.val.t # "obj"
          THEN /\ log' = log \o ErrorResponse(400, "Invalid request")
               /\ pc' = "done"
               /\ UNCHANGED << data, cdxml >>
          ELSE /\ data' = j.val
               /\ cdxml' = Or(DictGet(j.val, K_cdxml), NoValue)
               /\ pc' = "post_validate"
               /\ UNCHANGED log
    /\ UNCHANGED << io, raw, cdx_b64, cdx_bytes, err, conv, exc, clip >>

\* mutant of PostValidate: the markup is tested for emptiness without trimming
PostValidateUntrimmed ==
    /\ pc = "post_validate"
    /\ IF cdxml.t # "str"
       THEN /\ pc' = "raised"
            /\ UNCHANGED log
       ELSE IF cdxml.v = <<>>
       THEN /\ log' = log \o ErrorResponse(400, "Missing or empty cdxml")
            /\ pc' = "done"
       ELSE /\ pc' = "h_import"
            /\ UNCHANGED log
    /\ UNCHANGED << io, locals, conv, exc, clip >>

\* lines 59-65: cdxml.strip() on a value that is not a str raises outside any try
PostValidate ==
    /\ pc = "post_validate"
    /\ IF cdxml.t # "str"
       THEN /\ pc' = "raised"
            /\ UNCHANGED log
       ELSE IF Strip(cdxml.v) = <<>>
       THEN /\ log' = log \o ErrorResponse(400, "Missing or empty cdxml")
            /\ pc' = "done"
       ELSE /\ pc' = "h_import"
            /\ UNCHANGED log
    /\ UNCHANGED << io, locals, conv, exc, clip >>

\* lines 69-75
PostFail ==
    /\ pc = "post_500"
    /\ log' = log \o ErrorResponse(500, Val(exc))
    /\ pc' = "done"
    /\ UNCHANGED << io, locals, conv, exc, clip >>

\* lines 77-83
PostOk ==
    /\ pc = "post_200"
    /\ log' = log \o
         << Call("send_response", 200, TRUE),
            Call("send_header", <<"Access-Control-Allow-Origin", "*">>, TRUE),
            Call("send_header", <<"Content-Type", "application/octet-stream">>, TRUE),
            Call("send_header", <<"Content-Disposition", "attachment; filename=\"structure.cdx\"">>, TRUE),
            Call("send_header", <<"Content-Length", IntText(Len(Val(cdx_bytes)))>>, TRUE),
            Call("end_headers", <<>>, TRUE),
            Call("wfile.write", Val(cdx_bytes), TRUE) >>
    /\ pc' = "done"
    /\ UNCHANGED << io, locals, conv, exc, clip >>

(***************************************************************************)
(* scripts/cdx_to_clipboard.py: main, lines 14-50.  No except clause: an   *)
(* exception leaves main after the finally clause.                         *)
(***************************************************************************)
Printed(text) == Call("print", text, TRUE)

\* lines 15-41: the checks that end in sys.exit(1), and the pywin32 import
CliStart ==
    /\ pc = "cli"
    /\ IF platform # "win32"
       THEN /\ log' = Append(log, Printed("This script is for Windows only."))
            /\ pc' = "exited" /\ UNCHANGED cdx_bytes
       ELSE IF Len(argv) < 1
       THEN /\ log' = Append(log, Printed("Usage: python cdx_to_clipboard.py <file.cdx>"))
            /\ pc' = "exited" /\ UNCHANGED cdx_bytes
       ELSE IF IsNone(disk)
       THEN /\ log' = Append(log, Printed("File not found"))
            /\ pc' = "exited" /\ UNCHANGED cdx_bytes
       ELSE IF Val(disk) = <<>>
       THEN /\ log' = log \o << Call("open", argv[1], TRUE), Printed("File is empty") >>
            /\ pc' = "exited" /\ UNCHANGED cdx_bytes
       ELSE \E found \in BOOLEAN :
              /\ cdx_bytes' = disk
              /\ log' = log \o << Call("open", argv[1], TRUE),
                                  Call("import win32clipboard", <<>>, found) >>
                         \o (IF found THEN <<>> ELSE << Printed("Install pywin32: pip install pywin32") >>)
              /\ pc' = IF found THEN "cli_register" ELSE "exited"
    /\ UNCHANGED << io, raw, data, cdxml, cdx_b64, err, conv, exc, clip >>

\* lines 43-44, outside the try/finally
CliOpen ==
    /\ pc = "cli_register"
    /\ \E registered \in BOOLEAN, opened \in BOOLEAN :
         IF ~registered
         THEN /\ ~opened
              /\ log' = Append(log, Call("RegisterClipboardFormat", CDX_FORMAT, FALSE))
              /\ pc' = "raised"
              /\ UNCHANGED clip_open
         ELSE /\ log' = log \o << Call("RegisterClipboardFormat", CDX_FORMAT, TRUE),
                                  Call("OpenClipboard", <<>>, opened) >>
              /\ clip_open' = opened
              /\ pc' = IF opened THEN "cli_write" ELSE "raised"
    /\ UNCHANGED << io, locals, conv, exc, clipboard >>

\* lines 46-48
CliWrite ==
    /\ pc = "cli_write"
    /\ \E cleared \in BOOLEAN, written \in BOOLEAN :
         IF ~cleared
         THEN /\ ~written
              /\ log' = Append(log, Call("EmptyClipboard", <<>>, FALSE))
              /\ exc' = Some("EmptyClipboard failed")
              /\ UNCHANGED clipboard
         ELSE /\ log' = log \o
                   << Call("EmptyClipboard", <<>>, TRUE),
                      Call("SetClipboardData", [fmt |-> CDX_FORMAT, data |-> Val(cdx_bytes)], written) >>
                   \o (IF written THEN << Printed("CDX copied to clipboard.") >> ELSE <<>>)
              /\ clipboard' = IF written THEN {[fmt |-> CDX_FORMAT, data |-> Val(cdx_bytes)]} ELSE {}
              /\ exc' = IF written THEN exc ELSE Some("SetClipboardData failed")
    /\ pc' = "cli_close"
    /\ UNCHANGED << io, locals, conv, clip_open >>

\* lines 49-50
CliClose ==
    /\ pc = "cli_close"
    /\ \E ok \in BOOLEAN :
         /\ log' = Append(log, Call("CloseClipboard", <<>>, ok))
         /\ clip_open' = IF ok THEN FALSE ELSE clip_open
         /\ pc' = IF ok /\ IsNone(exc) THEN "done" ELSE "raised"
    /\ UNCHANGED << io, locals, conv, exc, clipboard >>

(***************************************************************************)
(* The whole system.                                                       *)
(***************************************************************************)
Next ==
    \/ MainPlatform \/ MainRead \/ MainParse \/ MainExceptRequest \/ MainImport
    \/ MainConvert \/ CImport \/ CStage \/ CRun \/ CFinally
    \/ MainFallback \/ MainCheck
    \/ ClipRegister \/ ClipOpen \/ ClipEmpty \/ ClipSetCdx \/ ClipSetText
    \/ ClipRespond \/ ClipClose \/ MainExceptClip
    \/ PostParse \/ PostValidate \/ HImport \/ HStage \/ HRun \/ HFinally
    \/ PostFail \/ PostOk
    \/ CliStart \/ CliOpen \/ CliWrite \/ CliClose

Spec == Init /\ [][Next]_vars


(***************************************************************************)
(* The framing round trip: write_message(o) into a stream, read_message()  *)
(* on that stream, json.loads on what it returned.                         *)
(***************************************************************************)
K_success == <<115, 117, 99, 99, 101, 115, 115>>
K_error == <<101, 114, 114, 111, 114>>

\* texts with characters the encoder passes, escapes by name and escapes by code
FramingTexts ==
    { <<>>, <<97>>, <<87, 32, 111>>, <<34>>, <<92>>, <<92, 117>>, <<10>>, <<9, 47>>, <<127>>, <<233>>,
      <<39, 34, 120>> }

SuccessMembers ==
    { <<>>, << <<K_success, [t |-> "bool", v |-> TRUE]>> >>, << <<K_success, [t |-> "bool", v |-> FALSE]>> >> }
ErrorMembers == { <<>> } \cup { << <<K_error, JStr(s)>> >> : s \in FramingTexts }
OtherMembers ==
    { <<>>,
      << <<<<110>>, [t |-> "num", v |-> 0 - 7]>> >>,
      << <<<<34, 107>>, [t |-> "arr", v |-> << JNull, JStr(<<34>>), [t |-> "obj", v |-> <<>>], [t |-> "num", v |-> 10] >>]>> >>,
      << <<<<>>, [t |-> "obj", v |-> << <<<<107>>, [t |-> "arr", v |-> <<>>]>>, <<<<233>>, JNull>> >>]>> >> }

FramingObjects ==
    { [t |-> "obj", v |-> s \o e \o x] : s \in SuccessMembers, e \in ErrorMembers, x \in OtherMembers }

InitFraming ==
    /\ InitLocals
    /\ entry = "framing"
    /\ argv = <<>> /\ disk = None
    /\ pc = "f_write"
    /\ platform = "win32"
    /\ stdin = <<>> /\ stdout = <<>>
    /\ headers = None /\ rfile = <<>>
    /\ sent \in FramingObjects

\* write_message lines 27-29: the bytes written for obj
MessageBytes(obj) ==
    LET msg == Utf8Encode(JsonDumps(obj)) IN PackI(Len(msg)) \o msg

\* write_message(sent); the stream written is what the reader finds on its stdin
FrameWrite ==
    /\ pc = "f_write"
    /\ stdout' = stdout \o MessageBytes(sent)
    /\ stdin' = stdin \o MessageBytes(sent)
    /\ pc' = "f_read"
    /\ UNCHANGED << entry, argv, disk, platform, headers, rfile, sent, locals, conv, exc, clip, log >>

\* raw = read_message()
FrameRead ==
    /\ pc = "f_read"
    /\ LET r == read_message(stdin) IN
         /\ stdin' = r.rest
         /\ log' = Append(log, Call("read_message", [declared |-> r.declared, got |-> r.got], ~r.raised))
         /\ IF r.raised
            THEN /\ exc' = Some("UnicodeDecodeError")
                 /\ pc' = "raised"
                 /\ UNCHANGED raw
            ELSE /\ raw' = r.value
                 /\ pc' = "f_parse"
                 /\ UNCHANGED exc
    /\ UNCHANGED << entry, argv, disk, platform, headers, rfile, sent, stdout, data, cdxml, cdx_b64, cdx_bytes, err,
                    conv, clip >>

\* data = json.loads(raw)
FrameParse ==
    /\ pc = "f_parse"
    /\ LET j == IF IsNone(raw) THEN [ok |-> FALSE, val |-> JNull] ELSE JsonLoads(Val(raw)) IN
         IF j.ok
         THEN /\ data' = j.val
              /\ pc' = "done"
              /\ UNCHANGED exc
         ELSE /\ exc' = Some("JSONDecodeError")
              /\ pc' = "raised"
              /\ UNCHANGED data
    /\ UNCHANGED << io, raw, cdxml, cdx_b64, cdx_bytes, err, conv, clip, log >>

NextFraming == FrameWrite \/ FrameRead \/ FrameParse

SpecFraming == InitFraming /\ [][NextFraming]_vars


(***************************************************************************)
(* Reading the log.                                                        *)
(***************************************************************************)
Terminated == pc \in {"done", "raised", "exited"}
InHost == entry = "main"

Calls(op) == {i \in DOMAIN log : log[i].op = op}
WriteCalls == Calls("write_message")
SuccessWrites == {i \in WriteCalls : log[i].arg.success}
FailureWrites == {i \in WriteCalls : ~log[i].arg.success}
NoWriteRaised == \A i \in WriteCalls : log[i].ok

\* SetClipboardData calls for one format
SetCalls(fmt) == {i \in Calls("SetClipboardData") : log[i].arg.fmt = fmt}
ClipboardCalls ==
    Calls("RegisterClipboardFormat") \cup Calls("OpenClipboard") \cup Calls("EmptyClipboard")
    \cup Calls("SetClipboardData") \cup Calls("CloseClipboard")

\* calls made by a markup conversion
ProviderCalls == Calls("import") \cup Calls("read_cdxml") \cup Calls("to_b64_cdx")
ProviderFailures ==
    {i \in Calls("read_cdxml") \cup Calls("to_b64_cdx") \cup Calls("b64decode provider output") :
        ~log[i].ok}
ImportsOf(mod) == {i \in Calls("import") : log[i].arg[1] = mod}

\* the loaded provider parsed and serialized the markup and its output decoded to bytes
ProviderProducedBytes == \E i \in Calls("b64decode provider output") : log[i].ok

\* the request parsed to an object that has a member with this key
HasMember(key) == data.t = "obj" /\ \E i \in 1..Len(data.v) : data.v[i][1] = key

\* the request's cdxml member is a string
MarkupIsText == HasMember(K_cdxml) /\ DictGet(data, K_cdxml).t = "str"

(***************************************************************************)
(* C1: in every run of main() in which no write_message call itself        *)
(* raises, write_message has been called exactly once when the process     *)
(* ends.                                                                   *)
(***************************************************************************)
C1_ExactlyOneWrite ==
    (InHost /\ Terminated /\ NoWriteRaised) => Cardinality(WriteCalls) = 1

(***************************************************************************)
(* C2 as stated: any error in the first provider's attempt (ImportError,   *)
(* read_cdxml failure, to_b64_cdx failure, undecodable output) causes the  *)
(* next provider, cdx_mol, to be tried.                                    *)
(***************************************************************************)
C2_AnyErrorTriesNext ==
    (Terminated /\ ((\E i \in ImportsOf("pycdxml") : log[i].arg[2] = "ImportError")
                    \/ ProviderFailures # {}))
        => ImportsOf("cdx_mol") # {}

(***************************************************************************)
(* C2 amended: pycdxml is tried first, and cdx_mol is tried exactly when   *)
(* importing pycdxml raised ImportError; any other error of the first      *)
(* attempt (another exception on import, a read_cdxml or to_b64_cdx        *)
(* failure, undecodable output) ends the conversion with no further        *)
(* provider tried, so at most one provider ever parses the markup.         *)
(***************************************************************************)
C2_OnlyImportErrorTriesNext ==
    /\ \A i \in ImportsOf("cdx_mol") :
         /\ i > 1
         /\ log[i - 1].op = "import"
         /\ log[i - 1].arg = <<"pycdxml", "ImportError">>
    /\ \A i \in ImportsOf("pycdxml") :
         /\ ImportsOf("pycdxml") = {i}
         /\ log[i].arg[2] = "ImportError" => (i < Len(log) /\ (i + 1) \in ImportsOf("cdx_mol"))
         /\ log[i].arg[2] = "Exception" => ImportsOf("cdx_mol") = {}
    /\ Cardinality(Calls("read_cdxml")) <= 1
    /\ \A i \in ProviderFailures : \A j \in Calls("import") : j < i
    /\ \A i \in Calls("read_cdxml") : \E j \in Calls("import") : j < i /\ log[j].ok

\* C2 witness: the first provider was loaded and rejected the markup, and the run ended
C2_Witness ==
    /\ Terminated
    /\ \E i \in ImportsOf("pycdxml") : log[i].ok
    /\ \E i \in Calls("read_cdxml") : ~log[i].ok
    /\ ImportsOf("cdx_mol") = {}

(***************************************************************************)
(* C3: the host never writes a zero-length payload to the clipboard under  *)
(* the custom format and never answers success=true for empty bytes.       *)
(***************************************************************************)
C3_NoEmptyPayload ==
    InHost =>
        /\ \A i \in SetCalls(CDX_FORMAT) : log[i].ok => log[i].arg.data # <<>>
        /\ SuccessWrites # {} => Val(cdx_bytes) # <<>>

(***************************************************************************)
(* C4: a request whose cdxml member is present but empty or                *)
(* whitespace-only is a validation failure whatever else it carries: the   *)
(* host answers success=false with no conversion and no clipboard call,    *)
(* and the HTTP handler answers 400.                                       *)
(***************************************************************************)
BlankMarkup == MarkupIsText /\ Strip(DictGet(data, K_cdxml).v) = <<>>

C4_BlankMarkupRejected ==
    (BlankMarkup /\ Terminated /\ NoWriteRaised) =>
        IF InHost
        THEN /\ SuccessWrites = {}
             /\ FailureWrites # {}
             /\ ProviderCalls = {} /\ ClipboardCalls = {}
        ELSE \E i \in Calls("send_response") : log[i].arg = 400


(***************************************************************************)
(* C5 as stated: for a well-formed Message carrying only markup text, the  *)
(* response is success=true if and only if a provider accepted the markup. *)
(***************************************************************************)
MarkupOnly ==
    /\ InHost /\ platform = "win32"
    /\ MarkupIsText /\ ~HasMember(K_cdx) /\ ~HasMember(K_cdxBase64)

C5_SuccessIffAccepted ==
    (MarkupOnly /\ Terminated /\ NoWriteRaised) => (SuccessWrites # {} <=> ProviderProducedBytes)

\* every pywin32 call up to the last format write was made and succeeded
ClipboardWritten ==
    /\ \E i \in Calls("import win32clipboard") : log[i].ok
    /\ \E i \in Calls("RegisterClipboardFormat") : log[i].ok
    /\ \E i \in Calls("OpenClipboard") : log[i].ok
    /\ \E i \in Calls("EmptyClipboard") : log[i].ok
    /\ \E i \in SetCalls(CDX_FORMAT) : log[i].ok
    /\ \A i \in Calls("SetClipboardData") : log[i].ok

(***************************************************************************)
(* C5 amended: for a well-formed Message carrying only markup text,        *)
(* write_message({'success': True}) is called only if the loaded provider  *)
(* produced bytes for the markup; it is called whenever the provider did   *)
(* and pywin32 was importable and the register, open, clear and format     *)
(* writes all succeeded; and when no provider produced bytes a failure     *)
(* Message is written and no success Message.                              *)
(***************************************************************************)
C5_SuccessNeedsAcceptAndClipboard ==
    (MarkupOnly /\ Terminated) =>
        /\ SuccessWrites # {} => (ProviderProducedBytes /\ ClipboardWritten)
        /\ (ProviderProducedBytes /\ ClipboardWritten) => SuccessWrites # {}
        /\ ~ProviderProducedBytes => (SuccessWrites = {} /\ FailureWrites # {})

\* C5 witness: a markup-only Message, the provider produced bytes, success was written
C5_Witness ==
    /\ MarkupOnly /\ Terminated
    /\ ProviderProducedBytes
    /\ \E i \in SuccessWrites : log[i].ok

(***************************************************************************)
(* C6 (priority law): when the Message carries non-empty markup and a blob *)
(* and the markup conversion produced bytes, the blob is never decoded and *)
(* every payload written under the custom format is the converter's        *)
(* output.                                                                 *)
(***************************************************************************)
\* the bytes the provider's base64 output decodes to
ProviderBytes ==
    LET i == CHOOSE k \in Calls("b64decode provider output") : log[k].ok
    IN B64DecodeStr(log[i].arg).bytes

C6_MarkupBeatsBlob ==
    (InHost /\ cdxml.v # <<>> /\ Truthy(cdx_b64) /\ ProviderProducedBytes /\ pc # "c_finally") =>
        /\ Calls("b64decode blob") = {}
        /\ cdx_bytes = Some(ProviderBytes)
        /\ \A i \in SetCalls(CDX_FORMAT) : log[i].arg.data = ProviderBytes

\* C6 witness: markup and a decodable blob were both supplied, the conversion produced
\* bytes and the custom format was written
C6_Witness ==
    /\ InHost /\ cdxml.v # <<>> /\ ProviderProducedBytes
    /\ cdx_b64.t = "str" /\ B64DecodeStr(cdx_b64.v).ok
    /\ B64DecodeStr(cdx_b64.v).bytes # ProviderBytes
    /\ \E i \in SetCalls(CDX_FORMAT) : log[i].ok

(***************************************************************************)
(* C7 (fallback law): when the markup conversion produced no bytes (or     *)
(* there was no markup) and the supplied blob decodes, the payload written *)
(* under the custom format is exactly the decoded blob, and no response    *)
(* carries the provider's error.                                           *)
(***************************************************************************)
BlobDecodes == cdx_b64.t = "str" /\ Truthy(cdx_b64) /\ B64DecodeStr(cdx_b64.v).ok

C7_FallbackIsDecodedBlob ==
    (InHost /\ BlobDecodes /\ ~ProviderProducedBytes
        /\ pc \in {"check", "register", "open", "empty", "set_cdx", "set_text", "respond",
                   "close", "except_clip", "done", "raised"}
        /\ Calls("import win32clipboard") # {} /\ (\A i \in Calls("import win32clipboard") : log[i].ok)) =>
        /\ cdx_bytes = Some(B64DecodeStr(cdx_b64.v).bytes)
        /\ \A i \in SetCalls(CDX_FORMAT) : log[i].arg.data = B64DecodeStr(cdx_b64.v).bytes
        /\ Terminated => (\E i \in SetCalls(CDX_FORMAT) : TRUE) \/ (\E i \in ClipboardCalls : ~log[i].ok)
        /\ \A i \in FailureWrites : IsNone(err) \/ log[i].arg.error # Val(err)

\* C7 witness: the provider rejected the markup, the blob was decoded and written
C7_Witness ==
    /\ InHost /\ BlobDecodes /\ ProviderFailures # {}
    /\ B64DecodeStr(cdx_b64.v).bytes # <<>>
    /\ \E i \in SetCalls(CDX_FORMAT) : log[i].ok
    /\ \E i \in SuccessWrites : log[i].ok


(***************************************************************************)
(* C8 (handle discipline): in the host and in cdx_to_clipboard.py,          *)
(* CloseClipboard is called only after a successful OpenClipboard, never   *)
(* more than once, and when the process ends it has been called exactly    *)
(* once if OpenClipboard succeeded.                                        *)
(***************************************************************************)
OpenedAt == {i \in Calls("OpenClipboard") : log[i].ok}

C8_CloseOncePerOpen ==
    entry \in {"main", "cli"} =>
        /\ Cardinality(Calls("CloseClipboard")) <= 1
        /\ \A c \in Calls("CloseClipboard") : \E o \in OpenedAt : o < c
        /\ Terminated => Cardinality(Calls("CloseClipboard")) = Cardinality(OpenedAt)
        /\ clip_open => (OpenedAt # {} /\ (\A c \in Calls("CloseClipboard") : ~log[c].ok))

\* C8 witness: the clipboard was opened, a write under it failed, and it was closed
C8_Witness ==
    /\ InHost /\ Terminated
    /\ OpenedAt # {}
    /\ \E i \in Calls("SetClipboardData") : ~log[i].ok
    /\ \E c \in Calls("CloseClipboard") : log[c].ok
    /\ ~clip_open

(***************************************************************************)
(* C9 (order inside the acquisition): open, clear, custom-format write,    *)
(* text-format write if the trimmed markup is non-empty, close.  No write  *)
(* precedes the clear or follows the close, a failed step is followed by   *)
(* no further write, and after a successful custom-format write the text   *)
(* format is written next exactly when the trimmed markup is non-empty.    *)
(***************************************************************************)
\* the clipboard calls made from OpenClipboard on, in order
RECURSIVE OpsFrom(_)
OpsFrom(i) ==
    IF i > Len(log) THEN <<>>
    ELSE IF log[i].op \in {"OpenClipboard", "EmptyClipboard", "CloseClipboard"}
         THEN << [op |-> log[i].op, ok |-> log[i].ok] >> \o OpsFrom(i + 1)
    ELSE IF log[i].op = "SetClipboardData"
         THEN << [op |-> log[i].arg.fmt, ok |-> log[i].ok] >> \o OpsFrom(i + 1)
    ELSE OpsFrom(i + 1)

\* the calls a complete transaction makes, cut after the first failed step, with
\* CloseClipboard whenever OpenClipboard succeeded
RECURSIVE ExpectedOps(_, _)
ExpectedOps(steps, done) ==
    IF steps = <<>> THEN << "CloseClipboard" >>
    ELSE IF done = <<>> THEN << Head(steps) >>
    ELSE IF ~Head(done).ok
         THEN IF Head(steps) = "OpenClipboard" THEN << Head(steps) >>
              ELSE << Head(steps), "CloseClipboard" >>
    ELSE << Head(steps) >> \o ExpectedOps(Tail(steps), Tail(done))

TransactionSteps ==
    << "OpenClipboard", "EmptyClipboard", CDX_FORMAT >>
    \o (IF cdxml.v # <<>> THEN << "CF_UNICODETEXT" >> ELSE <<>>)

C9_TransactionOrder ==
    InHost =>
        LET ops == OpsFrom(1)
            expected == ExpectedOps(TransactionSteps, ops)
        IN /\ Len(ops) <= Len(expected)
           /\ \A k \in 1..Len(ops) : ops[k].op = expected[k]
           /\ Terminated /\ ops # <<>> => Len(ops) = Len(expected)
           /\ \A i \in SetCalls("CF_UNICODETEXT") : log[i].arg.data = cdxml.v /\ cdxml.v # <<>>

\* C9 witness: the binary came from the blob fallback, and the markup was still
\* written as text between the custom-format write and the close
C9_Witness ==
    /\ InHost /\ Terminated
    /\ ProviderFailures # {}
    /\ \E i \in Calls("b64decode blob") : log[i].ok
    /\ \E i \in SetCalls(CDX_FORMAT), j \in SetCalls("CF_UNICODETEXT"), c \in Calls("CloseClipboard") :
         i < j /\ j < c /\ log[i].ok /\ log[j].ok /\ log[c].ok

(***************************************************************************)
(* C10: a success=true Message is written only in runs where open, clear,  *)
(* every format write and the release all succeeded; it is the last        *)
(* Message written, and no failure Message is written in the same run.     *)
(***************************************************************************)
C10_SuccessIsFinal ==
    (InHost /\ Terminated /\ NoWriteRaised /\ SuccessWrites # {}) =>
        /\ ClipboardWritten
        /\ \E c \in Calls("CloseClipboard") : log[c].ok
        /\ FailureWrites = {}
        /\ Cardinality(SuccessWrites) = 1

(***************************************************************************)
(* C11 (cleanup): once a markup conversion that created the temporary      *)
(* file has returned or raised, the file no longer exists, on every exit   *)
(* path; stated here for the runs in which no os.unlink call failed.       *)
(***************************************************************************)
InConversion ==
    pc \in {"c_import", "c_stage", "c_run", "c_finally", "h_import", "h_stage", "h_run", "h_finally"}

StagedFileCreated == \E i \in Calls("NamedTemporaryFile") : log[i].ok

C11_StagedFileRemoved ==
    (StagedFileCreated /\ ~InConversion /\ (\A i \in Calls("os.unlink") : log[i].ok)) => fs = {}

(***************************************************************************)
(* C12: on a platform other than win32 the host makes one call only,       *)
(* write_message({'success': False, 'error': 'Windows only'}): it reads    *)
(* nothing from stdin, stages no file, invokes no provider and makes no    *)
(* clipboard call.                                                         *)
(***************************************************************************)
C12_OtherPlatformOnlyAnswers ==
    (InHost /\ platform # "win32") =>
        /\ Len(log) <= 1
        /\ \A i \in DOMAIN log :
             log[i].op = "write_message" /\ log[i].arg = Failure("Windows only")
        /\ Terminated => Len(log) = 1
        /\ fs = {} /\ ~clip_open /\ clipboard = OldClipboard
        /\ IsNone(raw) /\ IsNone(cdx_bytes)

\* C12 witness: a host run on another platform, with a complete request waiting on
\* stdin, has ended after writing the one Message
C12_Witness ==
    /\ InHost /\ platform # "win32" /\ pc = "done"
    /\ Len(stdin) > 4 /\ JsonLoads(Drop(stdin, 4)).ok
    /\ Len(log) = 1 /\ log[1].ok

(***************************************************************************)
(* C13: a protocol error is rejected.  When fewer bytes follow the length  *)
(* prefix than it declares, or the payload is not UTF-8, not JSON or not a *)
(* JSON object, the host answers success=false and makes no conversion,    *)
(* blob decode or clipboard call.                                          *)
(***************************************************************************)
ShortRead == \E i \in Calls("read_message") : log[i].arg.got < log[i].arg.declared

MalformedPayload ==
    \/ \E i \in Calls("read_message") : ~log[i].ok
    \/ /\ ~IsNone(raw) /\ Val(raw) # <<>>
       /\ LET j == JsonLoads(Val(raw)) IN ~j.ok \/ j.val.t # "obj"

C13_ProtocolErrorRejected ==
    (InHost /\ Terminated /\ NoWriteRaised /\ (ShortRead \/ MalformedPayload)) =>
        /\ SuccessWrites = {}
        /\ FailureWrites # {}
        /\ ProviderCalls = {} /\ Calls("b64decode blob") = {} /\ ClipboardCalls = {}

(***************************************************************************)
(* C14: when the Conversion Chain fails outright, the error of the         *)
(* response is the reason of the final unrecovered failure: the decode     *)
(* failure when a supplied blob could not be decoded, the provider's error *)
(* when a loaded provider rejected the markup and no blob was supplied,    *)
(* and the missing-capability message only when no provider was loaded.    *)
(***************************************************************************)
ChainFailed ==
    /\ InHost /\ Terminated /\ IsNone(cdx_bytes)
    /\ \E i \in Calls("import win32clipboard") : log[i].ok

ProviderLoaded == \E i \in Calls("import") : log[i].ok
BlobDecodeFailed == \E i \in Calls("b64decode blob") : ~log[i].ok
MissingCapability == "Could not get CDX. Install cdx-mol: pip install cdx-mol"

C14_FinalReasonSurfaced ==
    (ChainFailed /\ NoWriteRaised) =>
        \A i \in FailureWrites :
            /\ BlobDecodeFailed => log[i].arg.error = DecodeBlob(cdx_b64).err
            /\ (ProviderLoaded /\ ~Truthy(cdx_b64)) => log[i].arg.error = Val(err)
            /\ log[i].arg.error = MissingCapability => ~ProviderLoaded

(***************************************************************************)
(* C15: do_POST never ends without a response: when it has ended, exactly  *)
(* one response was sent, with status 200, 400 or 500.                     *)
(***************************************************************************)
InPost == entry = "do_POST"

C15_AlwaysOneResponse ==
    (InPost /\ Terminated) =>
        /\ Cardinality(Calls("send_response")) = 1
        /\ \A i \in Calls("send_response") : log[i].arg \in {200, 400, 500}

(***************************************************************************)
(* C16: status mapping and validation order of do_POST.  A body that does  *)
(* not parse gives 400; then a missing or blank cdxml gives 400 'Missing   *)
(* or empty cdxml'; the converter is invoked only after both checks pass;  *)
(* a converter failure gives 500 with its reason; 200 is sent exactly when *)
(* the conversion returned bytes, with Content-Length the length of the    *)
(* body written.                                                           *)
(***************************************************************************)
\* the request as do_POST reads it, computed from the connection
PostRequest ==
    LET cl == IF IsNone(headers) THEN [ok |-> TRUE, n |-> 0] ELSE ParseInt(Val(headers))
        dec == Utf8Decode(RfileRead(rfile, cl.n))
        j == JsonLoads(dec.text)
        ok == cl.ok /\ dec.ok /\ j.ok /\ j.val.t = "obj"
    IN [ok |-> ok, markup |-> IF ok THEN Or(DictGet(j.val, K_cdxml), NoValue) ELSE NoValue]

StatusesSent == {log[i].arg : i \in Calls("send_response")}
ErrorsSent == {log[i].arg.error : i \in {k \in Calls("wfile.write") : log[k - 5 + 1].arg \in {400, 500}}}
ConverterInvoked == ProviderCalls # {}

C16_StatusMapping ==
    InPost =>
        /\ ConverterInvoked =>
             (PostRequest.ok /\ PostRequest.markup.t = "str" /\ Strip(PostRequest.markup.v) # <<>>)
        /\ Terminated =>
             /\ ~PostRequest.ok => (StatusesSent = {400} /\ ErrorsSent = {"Invalid request"})
             /\ (PostRequest.ok /\ PostRequest.markup.t = "str" /\ Strip(PostRequest.markup.v) = <<>>)
                  => (StatusesSent = {400} /\ ErrorsSent = {"Missing or empty cdxml"})
             /\ (ConverterInvoked /\ ~ProviderProducedBytes)
                  => (StatusesSent = {500} /\ ErrorsSent = {Val(exc)})
             /\ 500 \in StatusesSent => (ConverterInvoked /\ ~ProviderProducedBytes)
             /\ 200 \in StatusesSent <=> ProviderProducedBytes
             /\ 200 \in StatusesSent =>
                  \E h \in Calls("send_header"), w \in Calls("wfile.write") :
                     /\ log[h].arg[1] = "Content-Length"
                     /\ h < w
                     /\ log[h].arg[2] = IntText(Len(log[w].arg))
                     /\ log[w].arg = ProviderBytes
                     /\ Cardinality(Calls("wfile.write")) = 1

\* C16 witness: a valid request was converted and answered 200 with a non-empty body
C16_Witness ==
    /\ InPost /\ Terminated
    /\ StatusesSent = {200}
    /\ \E w \in Calls("wfile.write") : Len(log[w].arg) > 0

(***************************************************************************)
(* C17: on win32 a Message with neither markup text (cdxml absent, null or *)
(* blank) nor a blob under cdx or cdxBase64 is answered with the failure   *)
(* 'Missing cdxml or cdx field'; no provider is invoked, no temporary file *)
(* is created and no clipboard call is made in that run.                   *)
(***************************************************************************)
MessageMarkup == Or(DictGet(data, K_cdxml), NoValue)
MessageBlob == Or(Or(DictGet(data, K_cdx), DictGet(data, K_cdxBase64)), NoValue)
EmptyMessage ==
    /\ InHost /\ platform = "win32" /\ data.t = "obj"
    /\ MessageMarkup.t = "str" /\ Strip(MessageMarkup.v) = <<>>
    /\ ~Truthy(MessageBlob)

C17_EmptyMessageRejected ==
    EmptyMessage =>
        /\ Len(log) >= 2
        /\ log[1].op = "read_message"
        /\ log[2].op = "write_message" /\ log[2].arg = Failure("Missing cdxml or cdx field")
        /\ log[2].ok => Len(log) = 2
        /\ (Terminated /\ NoWriteRaised) => (pc = "done" /\ Cardinality(WriteCalls) = 1)
        /\ ProviderCalls = {} /\ Calls("NamedTemporaryFile") = {}
        /\ Calls("import win32clipboard") = {} /\ ClipboardCalls = {}
        /\ fs = {} /\ ~clip_open /\ clipboard = OldClipboard

\* C17 witness: the object {} was read on win32 and answered
C17_Witness ==
    /\ EmptyMessage /\ pc = "done"
    /\ data.v = <<>>
    /\ log[2].ok

(***************************************************************************)
(* C18: framing round trip.  The stream write_message(o) produces is a     *)
(* 4-byte length equal to the payload's byte count followed by the         *)
(* payload; read_message() on that stream followed by json.loads yields an *)
(* object equal to o and leaves none of the written bytes unread.          *)
(***************************************************************************)
InFraming == entry = "framing"

C18_FramingRoundTrip ==
    InFraming =>
        /\ pc # "raised"
        /\ pc # "f_write" =>
             /\ Len(stdout) >= 4
             /\ UnpackI(SubSeq(stdout, 1, 4)) = Len(stdout) - 4
             /\ Utf8Decode(SubSeq(stdout, 5, Len(stdout))).ok
             /\ JsonLoads(Utf8Decode(SubSeq(stdout, 5, Len(stdout))).text).ok
        /\ pc \in {"f_parse", "done"} =>
             /\ stdin = <<>>
             /\ ~IsNone(raw) /\ Utf8Encode(Val(raw)) = SubSeq(stdout, 5, Len(stdout))
             /\ \A i \in Calls("read_message") :
                  log[i].ok /\ log[i].arg.declared = Len(stdout) - 4 /\ log[i].arg.got = Len(stdout) - 4
        /\ pc = "done" => data = sent

\* C18 witness: an object whose error text holds a double quote went through
\* write_message, read_message and json.loads
C18_Witness ==
    /\ InFraming /\ pc = "done"
    /\ \E i \in 1..Len(sent.v) :
         /\ sent.v[i][1] = K_error
         /\ \E k \in 1..Len(sent.v[i][2].v) : sent.v[i][2].v[k] = 34
    /\ data = sent

(***************************************************************************)
(* C19: the host imports pywin32 after the request was validated and       *)
(* before any conversion.  When the import fails the run ends with one     *)
(* failure Message naming pywin32: no provider is invoked, no temporary    *)
(* file is created, no blob is decoded and no clipboard call is made.      *)
(***************************************************************************)
PywinMissing == InHost /\ \E i \in Calls("import win32clipboard") : ~log[i].ok
ConversionCalls ==
    ProviderCalls \cup Calls("NamedTemporaryFile") \cup Calls("f.write") \cup Calls("os.unlink")
    \cup Calls("b64decode provider output") \cup Calls("b64decode blob")

C19_ClipboardCapabilityFirst ==
    /\ InHost =>
         \A i \in ConversionCalls \cup ClipboardCalls :
            \E j \in Calls("import win32clipboard") : log[j].ok /\ j < i
    /\ (InHost /\ Calls("import win32clipboard") # {}) =>
         /\ data.t = "obj" /\ (cdxml.v # <<>> \/ Truthy(cdx_b64))
         /\ \A j \in Calls("import win32clipboard") : j = 2 /\ log[1].op = "read_message"
    /\ PywinMissing =>
         /\ Len(log) = 3
         /\ log[3].op = "write_message"
         /\ log[3].arg = Failure("Install pywin32: pip install pywin32")
         /\ pc = (IF log[3].ok THEN "done" ELSE "raised")
         /\ ConversionCalls = {} /\ ClipboardCalls = {}
         /\ fs = {} /\ IsNone(cdx_bytes) /\ ~clip_open /\ clipboard = OldClipboard

\* C19 witness: a request carrying both markup and a blob met a missing pywin32
C19_Witness ==
    /\ PywinMissing /\ pc = "done"
    /\ cdxml.v # <<>> /\ Truthy(cdx_b64)
    /\ log[3].ok

=============================================================================
